---- MODULE Spec2Model ----
(***************************************************************************)
(* napari-aicsimageio, napari_aicsimageio/core.py.                         *)
(*                                                                         *)
(* The module has two entry points, get_reader (the capability probe) and  *)
(* reader_function (the load orchestration), and one task body,            *)
(* _load_image, which runs once per path on the dask client.  The host     *)
(* (napari) is the environment: it calls get_reader, calls the partial it  *)
(* got back, or calls reader_function directly.                            *)
(*                                                                         *)
(* Python's Optional[x] is modelled as a set: None is {} and a value v is  *)
(* {v}.  Python indices are 0-based and are kept 0-based in every value    *)
(* the program computes (index, channel_axis); TLA+ sequences are 1-based. *)
(***************************************************************************)
EXTENDS Integers, Sequences, FiniteSets, TLC

\* ------------------------------------------------------------------ bounds
MaxPaths == 2       \* longest path list the host passes
MaxCalls == 2       \* reader_function calls in one run of the model

\* ------------------------------------------------------------- Optional[x]
None == {}
Some(v) == {v}
Get(o) == CHOOSE v \in o : TRUE

\* ------------------------------------------------------------------- files
\* What lies behind a path, as far as core.py can observe it through the
\* aicsimageio reader: which reader class claims the file (or that none does,
\* or that detection itself faults), reader.dims, the shape of
\* reader.dask_data, and reader.get_channel_names().
Disk ==
    [stack      |-> [kind |-> "TiffReader", dims |-> <<"C", "Y", "X">>,
                     shape |-> <<2, 3, 3>>, names |-> <<"dna", "actin">>],
     timestack  |-> [kind |-> "TiffReader", dims |-> <<"T", "C", "Y", "X">>,
                     shape |-> <<1, 2, 3, 3>>, names |-> <<"gfp", "rfp">>],
     single     |-> [kind |-> "TiffReader", dims |-> <<"C", "Y", "X">>,
                     shape |-> <<1, 3, 3>>, names |-> <<"0">>],
     plane      |-> [kind |-> "DefaultReader", dims |-> <<"Y", "X">>,
                     shape |-> <<3, 3>>, names |-> <<>>],
     text       |-> [kind |-> "unsupported", dims |-> <<>>, shape |-> <<>>,
                     names |-> <<>>],
     missing    |-> [kind |-> "fault", dims |-> <<>>, shape |-> <<>>,
                     names |-> <<>>]]

\* the paths the host can pass
Files == DOMAIN Disk

PathLists == UNION {[1..n -> Files] : n \in 0..MaxPaths}

\* PathLike = Union[str, List[str]]
PathLike == [isStr : {TRUE}, val : Files] \cup [isStr : {FALSE}, val : PathLists]

\* paths = [path] if isinstance(path, str) else path
StandardizePaths(path) == IF path.isStr THEN <<path.val>> ELSE path.val

\* AICSImage.determine_reader(p): the class of the first registered reader
\* that claims p, UnsupportedFileFormatError when none does; any other
\* exception the detection raises (a path that does not exist, a directory)
\* is the outcome "fault".
DetermineReader(f) ==
    CASE Disk[f].kind = "unsupported" ->
            [raises |-> "UnsupportedFileFormatError", cls |-> "none"]
      [] Disk[f].kind = "fault" ->
            [raises |-> "FileNotFoundError", cls |-> "none"]
      [] OTHER ->
            [raises |-> "none", cls |-> Disk[f].kind]

\* ------------------------------------------------------------ array model
\* reader.dask_data: a lazy array of the file's native dtype
DaskData(f) == [src |-> f, shape |-> Disk[f].shape, dtype |-> "native", lazy |-> TRUE]

\* a.astype(np.float16)
AsFloat16(a) == [a EXCEPT !.dtype = "float16"]

\* (variant) squeeze that removes nothing
SqueezeNothing(shape) == shape

\* np.squeeze on a shape: every axis of length 1 is removed
SqueezeShape(shape) == SelectSeq(shape, LAMBDA d : d # 1)

\* np.squeeze(a)
Squeeze(a) == [a EXCEPT !.shape = SqueezeShape(a.shape)]

\* da.stack(arrays): a new leading axis; the arrays must share one shape
StackRaises(arrays) ==
    \/ Len(arrays) = 0
    \/ \E i \in 1..Len(arrays) : arrays[i].shape # arrays[1].shape

Stack(arrays) ==
    [parts |-> arrays,
     shape |-> <<Len(arrays)>> \o arrays[1].shape,
     dtype |-> arrays[1].dtype,
     lazy  |-> TRUE]

\* data.compute()
Compute(a) == [a EXCEPT !.lazy = FALSE]

\* ------------------------------------------------------------ _load_image
\* Python truthiness of the int that _load_image receives as `compute`
Truthy(n) == n # 0

\* the keyword arguments ReaderClass is called with
ReaderKwargs(compute) ==
    IF Truthy(compute) THEN None ELSE Some(<<"Y", "X">>)

\* reader.dims.index(Dimensions.Channel), 0-based, None when C is not in dims
ChannelAxis(dims) ==
    IF \E k \in 1..Len(dims) : dims[k] = "C"
    THEN Some((CHOOSE k \in 1..Len(dims) :
                  /\ dims[k] = "C"
                  /\ \A j \in 1..(k - 1) : dims[j] # "C") - 1)
    ELSE None

\* reader.get_channel_names() when there is a channel axis, else None
ChannelNames(f, channel_axis) ==
    IF channel_axis # None THEN Some(Disk[f].names) ELSE None

\* the LoadResult _load_image returns
LoadResult(f, index) ==
    [data          |-> Squeeze(AsFloat16(DaskData(f))),
     index         |-> index,
     channel_axis  |-> ChannelAxis(Disk[f].dims),
     channel_names |-> ChannelNames(f, ChannelAxis(Disk[f].dims))]

\* -------------------------------------------------------- reader_function
\* the fourth iterable handed to client.map:
\*   [compute for compute in range(len(paths))]
MapComputeArgs(compute, n) == [i \in 1..n |-> i - 1]

\* one task per path: client.map(_load_image, paths, [ReaderClass...],
\* [i ...], [compute ...]) on the client of context c
MapTasks(ps, cls, compute, c) ==
    [i \in 1..Len(ps) |->
        [path        |-> ps[i],
         ReaderClass |-> cls,
         index       |-> i - 1,
         compute     |-> MapComputeArgs(compute, Len(ps))[i],
         ctx         |-> c,
         state       |-> "pending"]]

\* (variant) gather that returns as soon as one future has finished
GatherReadyAny(ts) == \E i \in 1..Len(ts) : ts[i].state = "done"

\* client.gather(futures) returns once every future has finished
GatherReady(ts) == \A i \in 1..Len(ts) : ts[i].state = "done"

\* client.gather(futures) re-raises the exception of a failed future
GatherFails(ts) == \E i \in 1..Len(ts) : ts[i].state = "failed"

\* insertion sort on result.index (stable, as Python's sorted)
RECURSIVE Insert(_, _)
Insert(r, s) ==
    IF s = <<>> THEN <<r>>
    ELSE IF r.index < Head(s).index THEN <<r>> \o s
    ELSE <<Head(s)>> \o Insert(r, Tail(s))

RECURSIVE SortByIndex(_)
SortByIndex(rs) ==
    IF rs = <<>> THEN <<>>
    ELSE Insert(rs[Len(rs)], SortByIndex(SubSeq(rs, 1, Len(rs) - 1)))

\* (variant) the gathered list used as it came
Unsorted(rs) == rs

\* results = sorted(results, key=lambda result: result.index)
Sorted(rs) == SortByIndex(rs)

\* [result.data for result in results]
DataOf(rs) == [i \in 1..Len(rs) |-> rs[i].data]

\* (variant) the stacked array is never computed
NeverCompute(compute, data) == data

\* if compute: data = data.compute()
MaybeCompute(compute, data) == IF compute THEN Compute(data) ELSE data

\* (variant) metadata built from the last result
MetaSourceLast(rs) == rs[Len(rs)]

\* the result the metadata is built from: results[0]
MetaSource(rs) == rs[1]

\* channel_axis = results[0].channel_axis; if not None: channel_axis += 1
ShiftAxis(channel_axis) ==
    IF channel_axis # None THEN Some(Get(channel_axis) + 1) ELSE None

\* meta = {"name": ..., "channel_axis": ..., "is_pyramid": False, "visible": False}
Meta(rs) ==
    [name         |-> MetaSource(rs).channel_names,
     channel_axis |-> ShiftAxis(MetaSource(rs).channel_axis),
     is_pyramid   |-> FALSE,
     visible      |-> FALSE]

\* (variant) the context is shut down on the normal path only
ContextExitOnSuccess(opened, c, raised) ==
    IF raised THEN opened ELSE opened \ {c}

\* leaving the `with dask_utils.cluster_and_client(...)` block, normally or
\* by an exception, shuts the cluster and client of context c
ContextExit(opened, c, raised) == opened \ {c}

\* ------------------------------------------------------------- get_reader
\* (variant) the last path is probed
ProbeTargetLast(ps) == ps[Len(ps)]

\* the path handed to AICSImage.determine_reader: paths[0]
ProbeTarget(ps) == ps[1]

\* (variant) a bare except
CatchesAny(exc) == TRUE

\* except exceptions.UnsupportedFileFormatError
Catches(exc) == exc = "UnsupportedFileFormatError"

\* partial(reader_function, compute=compute, processes=processes)
Partial(c, p) == [compute |-> c, processes |-> p]

\* ------------------------------------------------------------------- state
VARIABLES
    pc,          \* "idle": the host is between calls; "probed": get_reader
                 \* has returned or raised; "gather": a reader_function
                 \* call is blocked in client.gather; "finished":
                 \* reader_function has returned or raised
    probePaths,  \* get_reader: its standardized paths
    probed,      \* get_reader: the paths handed to determine_reader
    loader,      \* get_reader: its return value, None or Some(partial)
    paths,       \* reader_function: its standardized paths
    compute,     \* reader_function: its compute flag
    tasks,       \* reader_function: the futures of client.map
    readers,     \* per task, the reader _load_image has constructed
    done,        \* the LoadResults of the finished tasks, in completion order
    results,     \* reader_function: `results` after sorted(...)
    ret,         \* reader_function: the list it returned, <<>> if it has not
    fault,       \* the exception the last host call raised, "none" if none
    ctx,         \* the cluster/client context of the reader_function call
    opened,      \* the contexts that are open (not shut down)
    callNo       \* number of reader_function calls made so far

vars ==
    <<pc, probePaths, probed, loader, paths, compute, tasks, readers,
      done, results, ret, fault, ctx, opened, callNo>>

getReaderVars == <<probePaths, probed, loader>>
callVars == <<paths, compute, tasks, readers, done, results, ret>>

NoContext == [id |-> 0, processes |-> FALSE]

Init ==
    /\ pc = "idle"
    /\ probePaths = <<>>
    /\ probed = {}
    /\ loader = None
    /\ paths = <<>>
    /\ compute = FALSE
    /\ tasks = <<>>
    /\ readers = <<>>
    /\ done = <<>>
    /\ results = <<>>
    /\ ret = <<>>
    /\ fault = "none"
    /\ ctx = NoContext
    /\ opened = {}
    /\ callNo = 0

\* the host drops what an earlier reader_function call left behind
ClearCall ==
    /\ paths' = <<>>
    /\ compute' = FALSE
    /\ tasks' = <<>>
    /\ readers' = <<>>
    /\ done' = <<>>
    /\ results' = <<>>
    /\ ret' = <<>>

\* get_reader(path, compute, processes)
GetReader(path, c, p) ==
    /\ pc = "idle"
    /\ LET ps  == StandardizePaths(path)
           exc == IF Len(ps) = 0 THEN "IndexError"
                  ELSE DetermineReader(ProbeTarget(ps)).raises
       IN  /\ probePaths' = ps
           /\ probed' = IF Len(ps) = 0 THEN {} ELSE {ProbeTarget(ps)}
           /\ loader' = IF exc = "none" THEN Some(Partial(c, p)) ELSE None
           /\ fault' = IF exc # "none" /\ ~Catches(exc) THEN exc ELSE "none"
    /\ pc' = "probed"
    /\ ClearCall
    /\ UNCHANGED <<ctx, opened, callNo>>

\* reader_function(path, compute, processes) up to the point where it blocks
\* in client.gather: lines 79-96.  An exception of paths[0] or of
\* determine_reader leaves the function before the context is entered.
Enter(ps, c, p) ==
    LET exc == IF Len(ps) = 0 THEN "IndexError"
               ELSE DetermineReader(ps[1]).raises
        new == [id |-> callNo + 1, processes |-> p]
    IN  /\ callNo < MaxCalls
        /\ callNo' = callNo + 1
        /\ paths' = ps
        /\ compute' = c
        /\ done' = <<>>
        /\ results' = <<>>
        /\ ret' = <<>>
        /\ probePaths' = <<>>
        /\ probed' = {}
        /\ loader' = None
        /\ IF exc # "none"
           THEN /\ fault' = exc
                /\ pc' = "finished"
                /\ tasks' = <<>>
                /\ readers' = <<>>
                /\ UNCHANGED <<ctx, opened>>
           ELSE /\ fault' = "none"
                /\ pc' = "gather"
                /\ ctx' = new
                /\ opened' = opened \cup {new}
                /\ tasks' = MapTasks(ps, DetermineReader(ps[1]).cls, c, new)
                /\ readers' = [i \in 1..Len(ps) |-> None]

\* the host calls the partial get_reader gave it, with the paths it probed
CallLoader ==
    /\ pc = "probed"
    /\ loader # None
    /\ Enter(probePaths, Get(loader).compute, Get(loader).processes)

\* reader_function called directly
CallReaderFunction(path, c, p) ==
    /\ pc = "idle"
    /\ Enter(StandardizePaths(path), c, p)

\* a file a reader can produce an array from
Readable(f) == Disk[f].kind \notin {"unsupported", "fault"}

\* the reader object _load_image constructs for task t
ReaderOf(t) ==
    [path |-> t.path, cls |-> t.ReaderClass,
     chunk_by_dims |-> ReaderKwargs(t.compute)]

\* task i runs _load_image to its return
LoadImage(i) ==
    /\ pc = "gather"
    /\ i \in 1..Len(tasks)
    /\ tasks[i].state = "pending"
    /\ Readable(tasks[i].path)
    /\ tasks' = [tasks EXCEPT ![i].state = "done"]
    /\ readers' = [readers EXCEPT ![i] = Some(ReaderOf(tasks[i]))]
    /\ done' = Append(done, LoadResult(tasks[i].path, tasks[i].index))
    /\ UNCHANGED <<pc, getReaderVars, paths, compute, results, ret,
                   fault, ctx, opened, callNo>>

\* task i runs _load_image and the reader raises (a malformed or unreadable
\* file, a worker fault)
LoadImageRaises(i) ==
    /\ pc = "gather"
    /\ i \in 1..Len(tasks)
    /\ tasks[i].state = "pending"
    /\ tasks' = [tasks EXCEPT ![i].state = "failed"]
    /\ readers' = [readers EXCEPT ![i] = Some(ReaderOf(tasks[i]))]
    /\ UNCHANGED <<pc, getReaderVars, paths, compute, done, results,
                   ret, fault, ctx, opened, callNo>>

\* client.gather(futures): the results of the futures.  The order in which
\* results reach the caller is taken to be the completion order, the weakest
\* assumption under which line 102 has to restore the caller's order.
Gather(completed) == completed

\* client.gather raises: the exception leaves the with block and the call
GatherRaises ==
    /\ pc = "gather"
    /\ GatherFails(tasks)
    /\ fault' = "LoadError"
    /\ ret' = <<>>
    /\ opened' = ContextExit(opened, ctx, TRUE)
    /\ pc' = "finished"
    /\ UNCHANGED <<getReaderVars, paths, compute, tasks, readers, done,
                   results, ctx, callNo>>

\* client.gather returns; lines 102-105, and da.stack raises
StackingRaises ==
    /\ pc = "gather"
    /\ GatherReady(tasks)
    /\ results' = Sorted(Gather(done))
    /\ StackRaises(DataOf(results'))
    /\ fault' = "ValueError"
    /\ ret' = <<>>
    /\ opened' = ContextExit(opened, ctx, TRUE)
    /\ pc' = "finished"
    /\ UNCHANGED <<getReaderVars, paths, compute, tasks, readers, done, ctx,
                   callNo>>

\* client.gather returns; lines 102-109, and data.compute() raises
ComputeRaises ==
    /\ pc = "gather"
    /\ GatherReady(tasks)
    /\ compute
    /\ results' = Sorted(Gather(done))
    /\ ~StackRaises(DataOf(results'))
    /\ fault' = "ComputeError"
    /\ ret' = <<>>
    /\ opened' = ContextExit(opened, ctx, TRUE)
    /\ pc' = "finished"
    /\ UNCHANGED <<getReaderVars, paths, compute, tasks, readers, done, ctx,
                   callNo>>

\* client.gather returns; lines 102-127: sort, stack, compute, metadata,
\* leave the with block, return [(data, meta)]
Return ==
    /\ pc = "gather"
    /\ GatherReady(tasks)
    /\ results' = Sorted(Gather(done))
    /\ ~StackRaises(DataOf(results'))
    /\ ret' = <<[data |-> MaybeCompute(compute, Stack(DataOf(results'))),
                 meta |-> Meta(results')]>>
    /\ fault' = "none"
    /\ opened' = ContextExit(opened, ctx, FALSE)
    /\ pc' = "finished"
    /\ UNCHANGED <<getReaderVars, paths, compute, tasks, readers, done, ctx,
                   callNo>>

\* the host has taken what the last call gave it and is ready for another
HostContinues ==
    /\ pc \in {"probed", "finished"}
    /\ pc' = "idle"
    /\ probePaths' = <<>>
    /\ probed' = {}
    /\ loader' = None
    /\ ClearCall
    /\ fault' = "none"
    /\ ctx' = NoContext
    /\ UNCHANGED <<opened, callNo>>

Next ==
    \/ \E path \in PathLike, c \in BOOLEAN, p \in BOOLEAN : GetReader(path, c, p)
    \/ CallLoader
    \/ \E path \in PathLike, c \in BOOLEAN, p \in BOOLEAN :
           CallReaderFunction(path, c, p)
    \/ \E i \in 1..MaxPaths : LoadImage(i)
    \/ \E i \in 1..MaxPaths : LoadImageRaises(i)
    \/ GatherRaises
    \/ StackingRaises
    \/ ComputeRaises
    \/ Return
    \/ HostContinues

Spec == Init /\ [][Next]_vars

\* ------------------------------------------------------------------ claims
Returned == pc = "finished" /\ ret # <<>>

\* C1: for N >= 1 paths and any completion order of the N tasks, the
\* returned array's leading axis has length N and its slice at position i is
\* the data loaded from the i-th path of the caller's list.
C1_StackFollowsPathOrder ==
    Returned =>
        LET a == ret[1].data
        IN  /\ a.shape[1] = Len(paths)
            /\ Len(a.parts) = Len(paths)
            /\ \A i \in 1..Len(paths) : a.parts[i].src = paths[i]

\* two different paths whose tasks completed in the reverse order
C1_Witness ==
    /\ Returned
    /\ Len(paths) = 2
    /\ paths[1] # paths[2]
    /\ done[1].index = 1
    /\ done[2].index = 0

\* C2: get_reader probes the first path only: None when no reader recognizes
\* the first path, a loader when one does, whatever the other paths are.
C2_OnlyFirstPathProbed ==
    (pc = "probed" /\ Len(probePaths) >= 1) =>
        /\ probed = {probePaths[1]}
        /\ Disk[probePaths[1]].kind = "unsupported"
               => (loader = None /\ fault = "none")
        /\ Disk[probePaths[1]].kind \in {"TiffReader", "DefaultReader"}
               => (loader # None /\ fault = "none")

\* a supported first path followed by an unsupported one still gives a loader
C2_Witness ==
    /\ pc = "probed"
    /\ Len(probePaths) = 2
    /\ Disk[probePaths[1]].kind = "TiffReader"
    /\ Disk[probePaths[2]].kind = "unsupported"
    /\ loader # None

\* C3 (as stated): every failure of format detection on the first path,
\* a missing first path included, gives None; get_reader never raises.
C3_NeverPropagates ==
    pc = "probed" => fault = "none"

\* C3 (amended): only UnsupportedFileFormatError is turned into None; an
\* empty path list raises IndexError and any other exception of the
\* detection propagates to the caller.
C3_OnlyUnsupportedAbsorbed ==
    pc = "probed" =>
        /\ Len(probePaths) = 0 => (fault = "IndexError" /\ loader = None)
        /\ (Len(probePaths) >= 1 /\ Disk[probePaths[1]].kind = "unsupported")
               => (fault = "none" /\ loader = None)
        /\ (Len(probePaths) >= 1 /\ Disk[probePaths[1]].kind = "fault")
               => (fault = "FileNotFoundError" /\ loader = None)
        /\ fault # "none" => loader = None

\* get_reader([]) has raised IndexError
C3_Witness ==
    /\ pc = "probed"
    /\ probePaths = <<>>
    /\ fault = "IndexError"

\* C4: in one call with flag c every task builds its reader according to c:
\* no chunk configuration when c, chunk_by_dims = [Y, X] when not c,
\* whatever the task's index.
C4_ReaderModeFollowsFlag ==
    \A i \in 1..Len(readers) :
        readers[i] # None =>
            Get(readers[i]).chunk_by_dims =
                IF compute THEN None ELSE Some(<<"Y", "X">>)

\* C5: the metadata comes from the first path's result only: a channel
\* dimension at 0-based position k gives channel_axis k+1 and that reader's
\* channel names, no channel dimension gives None for both; is_pyramid and
\* visible are False.
C5_MetaFromFirstPath ==
    Returned =>
        LET m == ret[1].meta
            d == Disk[paths[1]]
        IN  /\ m.is_pyramid = FALSE
            /\ m.visible = FALSE
            /\ \A k \in 1..Len(d.dims) :
                   d.dims[k] = "C" =>
                       (m.channel_axis = Some((k - 1) + 1) /\ m.name = Some(d.names))
            /\ (\A k \in 1..Len(d.dims) : d.dims[k] # "C") =>
                   (m.channel_axis = None /\ m.name = None)

\* two paths whose readers report the channel at different positions and
\* different channel names
C5_Witness ==
    /\ Returned
    /\ Len(paths) = 2
    /\ paths[1] = "timestack"
    /\ paths[2] = "stack"
    /\ ret[1].meta.channel_axis = Some(2)
    /\ ret[1].meta.name = Some(<<"gfp", "rfp">>)

\* C6 (as stated): for every call on N >= 1 paths the returned array has no
\* dimension of size 1.
C6_NoUnitDimension ==
    Returned =>
        \A i \in 1..Len(ret[1].data.shape) : ret[1].data.shape[i] # 1

\* C6 (amended): the returned array has no dimension of size 1 below the
\* leading stacking axis, and the leading axis has length N (so it has size
\* 1 exactly when a single path is loaded).
C6_NoUnitDimensionBelowStackAxis ==
    Returned =>
        /\ ret[1].data.shape[1] = Len(paths)
        /\ \A i \in 2..Len(ret[1].data.shape) : ret[1].data.shape[i] # 1

\* a single path whose reader's array has a unit dimension
C6_Witness ==
    /\ Returned
    /\ Len(paths) = 1
    /\ \E i \in 1..Len(Disk[paths[1]].shape) : Disk[paths[1]].shape[i] = 1
    /\ ret[1].data.shape[1] = 1

\* C7: a successful call returns a list of exactly one (array, metadata)
\* pair; the array is computed (not lazy) when the compute flag is true and
\* lazy when it is false.
C7_OnePairComputedIffFlag ==
    (pc = "finished" /\ fault = "none") =>
        /\ Len(ret) = 1
        /\ ret[1].data.lazy = ~compute

\* a successful call with compute = True over two paths
C7_Witness ==
    /\ pc = "finished"
    /\ fault = "none"
    /\ compute
    /\ Len(paths) = 2
    /\ ~ret[1].data.lazy

\* C8: each call creates its own context, which is shut down when the with
\* block is left, by return or by exception; no context of a finished call
\* is open and no task runs on another call's context.
C8_ContextScoped ==
    /\ pc # "gather" => opened = {}
    /\ pc = "gather" => (opened = {ctx} /\ ctx.id = callNo)
    /\ \A i \in 1..Len(tasks) : tasks[i].ctx = ctx /\ tasks[i].ctx.id = callNo

\* the second call has failed in da.stack after all its tasks were loaded
C8_Witness ==
    /\ pc = "finished"
    /\ callNo = 2
    /\ fault = "ValueError"
    /\ Len(done) = 2
    /\ opened = {}

\* C9: sorting and stacking start only after all N tasks have completed,
\* and one failed load fails the whole call: no pair is returned and no
\* partial result is built.
C9_AllOrNothing ==
    /\ results # <<>> =>
           /\ \A i \in 1..Len(tasks) : tasks[i].state = "done"
           /\ Len(results) = Len(paths)
    /\ (pc = "finished" /\ \E i \in 1..Len(tasks) : tasks[i].state = "failed")
           => (ret = <<>> /\ results = <<>> /\ fault = "LoadError")
    /\ Returned => Len(ret[1].data.parts) = Len(paths)

\* one task loaded its path, the other raised, and the call has failed
C9_Witness ==
    /\ pc = "finished"
    /\ Len(tasks) = 2
    /\ \E i \in 1..2 : tasks[i].state = "done"
    /\ \E i \in 1..2 : tasks[i].state = "failed"
    /\ ret = <<>>

\* C10: a non-null channel_axis in the returned metadata is a valid axis of
\* the returned array and is the axis that holds the channels: its length is
\* the number of channel names.
C10_ChannelAxisHoldsChannels ==
    (Returned /\ ret[1].meta.channel_axis # None) =>
        LET k == Get(ret[1].meta.channel_axis)
            a == ret[1].data
        IN  /\ k + 1 <= Len(a.shape)
            /\ a.shape[k + 1] = Len(Get(ret[1].meta.name))

====
